---- MODULE Spec2Model ----
(***************************************************************************)
(* Model of knowledge/views.py: the three request handlers                 *)
(*   KnowledgeView.post          (ingestion of one document)               *)
(*   KnowledgeView.delete        (deletion by Document Reference)          *)
(*   KnowledgeRetrieveView.post  (conversational query)                    *)
(* running concurrently against the stores they share: the local tmp/      *)
(* directory, blob storage, the vector store (collection and embedding     *)
(* tables), the Knowledge table, the Redis chat history and the process    *)
(* environment variable OPENAI_API_KEY.                                    *)
(*                                                                         *)
(* A request is one handler invocation.  Every call a handler makes to a   *)
(* store or service is one step; the call either succeeds or raises, and   *)
(* what the handler does with the exception is part of the same step.      *)
(***************************************************************************)
EXTENDS Integers, Sequences, FiniteSets, TLC

\* ------------------------------------------------------------- bounds
\* Number of requests handled (request ids 1..MaxReq, in order of arrival).
MaxReq == 2

\* Largest catalog the selector is applied to.
MaxCat == 4

\* Tokens of documents ingested before the first modelled request.
SeedTokens == {101}

\* The server's worker threads: so many requests are handled at a time.
Workers == {1, 2}

Sessions == {"s1", "s2"}
Questions == {"q2"}
Docs == {"d2"}
Extensions == {".txt", ".exe"}

\* ------------------------------------------------------- program data
NoId == <<>>
NoName == <<>>
NoKey == <<>>
NoUrl == <<>>
Unbound == <<>>

\* views.py:65  the extensions accepted by the upload check
DOC_EXTENSIONS == {".txt"}

\* views.py:68-71  tmp_storage_path = f"tmp/{safe_string}"
TmpPath(t) == <<"tmp", t>>

\* views.py:77-80  upload_blob(BUCKET_NAME, file_path, f"knowledges/{safe_string}_{file_name}")
UploadUrl(t) == <<"bucket", "knowledges", t>>

\* views.py:154  get_blob_name(url): the object name inside the bucket
BlobName(url) == IF Len(url) = 3 THEN <<url[2], url[3]>> ELSE <<>>

\* views.py:104  collection_name = f"langchain_{safe_string}"
CollectionName(t) == <<"langchain", t>>

\* views.py:93-98  the chunks the splitter makes of one loaded document
SplitDocuments(doc) == {<<doc, 1>>, <<doc, 2>>}

\* Embedding service: text -> vector (a point on a line; fixed dimension).
Embed(text) ==
  CASE text = "q1" -> 1
    [] text = "q2" -> 4
    [] text = "d1" -> 2
    [] text = "d2" -> 5
    [] text = "standalone q1" -> 2
    [] text = "standalone q2" -> 5
    [] OTHER -> 3

\* Per worker, the request it is handling or has just answered:
VARIABLES
  started,      \* number of requests accepted so far
  rid,          \* worker -> id of its request (1, 2, ... in order of arrival)
  pc,           \* worker -> position in the handler
  req,          \* worker -> request.data (the input fields)
  loc,          \* worker -> local variables of the handler
  resp,         \* worker -> response returned to the caller
  raised,       \* worker -> the first exception raised inside the try block
  calls,        \* worker -> service calls the request made, in order
  tmpDirs,      \* directories existing under tmp/
  blobs,        \* objects in the bucket (by URL)
  collections,  \* rows of the vector store's collection table, insertion order
  chunks,       \* rows of the vector store's embedding table
  knowledge,    \* rows of the Knowledge table
  history,      \* session id -> stored turns (Redis list)
  environ       \* os.environ["OPENAI_API_KEY"]

vars == <<started, rid, pc, req, loc, resp, raised, calls, tmpDirs, blobs, collections,
          chunks, knowledge, history, environ>>

stores == <<tmpDirs, blobs, collections, chunks, knowledge, history>>

NoReq == [kind |-> "none", valid |-> TRUE, ext |-> "", doc |-> "", url |-> NoUrl,
          question |-> "", user_id |-> "", openai_api_key |-> NoKey]

NoLoc == [tmp_storage_path |-> Unbound, knowledge_url |-> NoUrl,
          collection_id |-> NoId, collection_name |-> NoName,
          embeddings |-> 0, top3 |-> <<>>, client_key |-> NoKey,
          chat_history |-> <<>>, standalone |-> "", docs |-> {},
          answer |-> <<>>]

NoResp == [status |-> 0, message |-> "", escaped |-> FALSE]

\* A request's credential: every request supplies its own.
Key(r) == <<"sk", r>>

\* uuid.uuid4() of a collection row.  A request inserts at most one row, so
\* the id of the inserting request identifies the row.
Uuid(r) == <<"uuid", r>>

\* ------------------------------------------------------ store helpers
Range(s) == {s[i] : i \in 1..Len(s)}

RECURSIVE SelectSeqBy(_, _)
\* rows of s whose uuid is in keep, order kept
SelectSeqBy(s, keep) ==
  IF s = <<>> THEN <<>>
  ELSE IF Head(s).uuid \in keep
       THEN <<Head(s)>> \o SelectSeqBy(Tail(s), keep)
       ELSE SelectSeqBy(Tail(s), keep)

\* CollectionStore.get_by_name: the rows with that name (at most one)
ByName(name) == {c \in Range(collections) : c.name = name}
ByUuid(id) == {c \in Range(collections) : c.uuid = id}

\* PGVector.create_collection -> CollectionStore.get_or_create(name): the
\* constructor inserts the row when no row has the name.
GetOrCreate(r, name) ==
  IF ByName(name) # {} THEN collections
  ELSE Append(collections, [uuid |-> Uuid(r), name |-> name])

\* PGVector.delete_collection: drop the row with the store's name and, by
\* cascade, its chunks; a missing row is only logged.
DropCollection(name) ==
  SelectSeqBy(collections, {c.uuid : c \in Range(collections)} \ {c.uuid : c \in ByName(name)})

\* ---------------------------------------------------------- responses
\* Returning ends the handler invocation; what its locals held stays on
\* record until the worker takes its next request.
JsonResponse(w, status, message) ==
  /\ pc' = [pc EXCEPT ![w] = "done"]
  /\ loc' = loc
  /\ resp' = [resp EXCEPT ![w] = [status |-> status, message |-> message, escaped |-> FALSE]]

\* An exception that leaves the handler: the framework answers 500 itself.
Escapes(w, exc) ==
  /\ pc' = [pc EXCEPT ![w] = "done"]
  /\ loc' = loc
  /\ resp' = [resp EXCEPT ![w] = [status |-> 500, message |-> exc, escaped |-> TRUE]]

Call(w, svc, key, arg) ==
  calls' = [calls EXCEPT ![w] = Append(@, [svc |-> svc, key |-> key, arg |-> arg])]

\* Goto: the branch assigns locals itself; Step: it leaves them as they are.
Goto(w, label) == pc' = [pc EXCEPT ![w] = label] /\ UNCHANGED resp
Step(w, label) == Goto(w, label) /\ UNCHANGED loc

\* views.py:54, 128, 169  the framework hands the next request to a free
\* worker, which enters the handler with fresh locals
Accept(w) ==
  /\ pc[w] \in {"idle", "done"}
  /\ \A v \in Workers : v < w => pc[v] \notin {"idle", "done"}
  /\ started < MaxReq
  /\ started' = started + 1
  /\ rid' = [rid EXCEPT ![w] = started + 1]
  /\ pc' = [pc EXCEPT ![w] = "accepted"]
  /\ req' = [req EXCEPT ![w] = NoReq]
  /\ loc' = [loc EXCEPT ![w] = NoLoc]
  /\ resp' = [resp EXCEPT ![w] = NoResp]
  /\ raised' = [raised EXCEPT ![w] = ""]
  /\ calls' = [calls EXCEPT ![w] = <<>>]
  /\ UNCHANGED <<stores, environ>>

CanStart(w) == pc[w] = "accepted"

\* ============================================================ ingestion
\* KnowledgeView.post, views.py:54-126

\* views.py:123-126  except Exception as e: shutil.rmtree(tmp_storage_path);
\* JsonResponse(str(e), 500).  dirs: the directories existing when e is raised.
IngestExcept(w, e, dirs) ==
  /\ raised' = [raised EXCEPT ![w] = e]
  /\ IF loc[w].tmp_storage_path = Unbound
     THEN Escapes(w, "UnboundLocalError") /\ tmpDirs' = dirs
     ELSE IF loc[w].tmp_storage_path \notin dirs
     THEN Escapes(w, "FileNotFoundError") /\ tmpDirs' = dirs
     ELSE tmpDirs' = dirs \ {loc[w].tmp_storage_path} /\ JsonResponse(w, 500, e)

\* request.data of an ingestion: fields that fail validation, a file with an
\* extension outside DOC_EXTENSIONS, or a document with an accepted extension
IngestData ==
  {[NoReq EXCEPT !.kind = "ingest", !.valid = FALSE]}
  \cup {[NoReq EXCEPT !.kind = "ingest", !.ext = e] : e \in Extensions \ DOC_EXTENSIONS}
  \cup {[NoReq EXCEPT !.kind = "ingest", !.ext = e, !.doc = d] :
           e \in DOC_EXTENSIONS, d \in Docs}

\* views.py:54-71  validation, extension check, safe_string and tmp_storage_path
IngestStart(w) ==
  /\ CanStart(w)
  /\ \E data \in IngestData :
       LET valid == data.valid
           ext == data.ext
       IN
       /\ req' = [req EXCEPT ![w] = [data EXCEPT !.openai_api_key = Key(rid[w])]]
       /\ IF ~valid
          THEN IngestExcept(w, "ValidationError", tmpDirs)
          ELSE IF ext \notin DOC_EXTENSIONS
          THEN /\ JsonResponse(w, 400, "Please upload a txt file")
               /\ UNCHANGED <<raised, tmpDirs>>
          ELSE /\ loc' = [loc EXCEPT ![w].tmp_storage_path = TmpPath(rid[w])]
               /\ Goto(w, "i_stage")
               /\ UNCHANGED <<raised, tmpDirs>>
  /\ UNCHANGED <<started, rid, calls, blobs, collections, chunks, knowledge, history, environ>>

\* views.py:73-75  os.makedirs(tmp_storage_path); FileSystemStorage.save(file)
IngestStage(w) ==
  /\ pc[w] = "i_stage"
  /\ \E outcome \in {"ok", "makedirs", "save"} :
       CASE outcome = "ok" ->
              /\ tmpDirs' = tmpDirs \cup {loc[w].tmp_storage_path}
              /\ Step(w, "i_upload")
              /\ UNCHANGED raised
         [] outcome = "makedirs" ->
              IngestExcept(w, "OSError", tmpDirs)
         [] outcome = "save" ->
              IngestExcept(w, "StorageError", tmpDirs \cup {loc[w].tmp_storage_path})
  /\ UNCHANGED <<started, rid, req, calls, blobs, collections, chunks, knowledge, history, environ>>

\* views.py:77-80  knowledge_url = google_storage.upload_blob(...)
IngestUpload(w) ==
  /\ pc[w] = "i_upload"
  /\ \E ok \in BOOLEAN :
       IF ok
       THEN /\ blobs' = blobs \cup {UploadUrl(rid[w])}
            /\ loc' = [loc EXCEPT ![w].knowledge_url = UploadUrl(rid[w])]
            /\ Goto(w, "i_loader")
            /\ UNCHANGED <<raised, tmpDirs>>
       ELSE /\ IngestExcept(w, "UploadError", tmpDirs)
            /\ UNCHANGED blobs
  /\ UNCHANGED <<started, rid, req, calls, collections, chunks, knowledge, history, environ>>

\* views.py:81-90  os.environ["OPENAI_API_KEY"] = key; loader = get_loader(...);
\* loader is None -> 400, returned from inside the try block
IngestLoader(w) ==
  /\ pc[w] = "i_loader"
  /\ environ' = req[w].openai_api_key
  /\ \E loader \in {"loader", "None", "raise"} :
       CASE loader = "loader" ->
              Step(w, "i_load") /\ UNCHANGED <<raised, tmpDirs>>
         [] loader = "None" ->
              /\ JsonResponse(w, 400, "File extension is not supported")
              /\ UNCHANGED <<raised, tmpDirs>>
         [] loader = "raise" ->
              IngestExcept(w, "LoaderError", tmpDirs)
  /\ UNCHANGED <<started, rid, req, calls, blobs, collections, chunks, knowledge, history>>

\* views.py:92-103  loader.load(); split_documents; OpenAIEmbeddings(...) takes
\* its key from the environment when it is constructed
IngestLoad(w) ==
  /\ pc[w] = "i_load"
  /\ \E ok \in BOOLEAN :
       IF ok
       THEN /\ loc' = [loc EXCEPT ![w].docs = SplitDocuments(req[w].doc),
                                  ![w].client_key = environ]
            /\ Goto(w, "i_embed")
            /\ UNCHANGED <<raised, tmpDirs>>
       ELSE IngestExcept(w, "LoadError", tmpDirs)
  /\ UNCHANGED <<started, rid, req, calls, blobs, collections, chunks, knowledge, history, environ>>

\* views.py:106-112  PGVector.from_documents, first part: embed_documents(texts)
IngestEmbed(w) ==
  /\ pc[w] = "i_embed"
  /\ Call(w, "embed", loc[w].client_key, req[w].doc)
  /\ \E ok \in BOOLEAN :
       IF ok
       THEN /\ loc' = [loc EXCEPT ![w].embeddings = Embed(req[w].doc),
                                  ![w].collection_name = CollectionName(rid[w])]
            /\ Goto(w, "i_create")
            /\ UNCHANGED <<raised, tmpDirs>>
       ELSE IngestExcept(w, "EmbeddingServiceError", tmpDirs)
  /\ UNCHANGED <<started, rid, req, blobs, collections, chunks, knowledge, history, environ>>

\* views.py:106-112  PGVector.from_documents, second part: the store is
\* constructed, which creates the collection row
IngestCreate(w) ==
  /\ pc[w] = "i_create"
  /\ \E ok \in BOOLEAN :
       IF ok
       THEN /\ collections' = GetOrCreate(rid[w], loc[w].collection_name)
            /\ Step(w, "i_add")
            /\ UNCHANGED <<raised, tmpDirs>>
       ELSE IngestExcept(w, "VectorStoreError", tmpDirs) /\ UNCHANGED collections
  /\ UNCHANGED <<started, rid, req, calls, blobs, chunks, knowledge, history, environ>>

\* views.py:106-112  PGVector.from_documents, third part: add_embeddings writes
\* the chunks under the row found by name
IngestAdd(w) ==
  /\ pc[w] = "i_add"
  /\ \E ok \in BOOLEAN :
       IF ok /\ ByName(loc[w].collection_name) # {}
       THEN /\ chunks' = chunks \cup
                 {[collection_id |-> c.uuid, document |-> d, embedding |-> loc[w].embeddings] :
                    c \in ByName(loc[w].collection_name), d \in loc[w].docs}
            /\ Step(w, "i_lookup")
            /\ UNCHANGED <<raised, tmpDirs>>
       ELSE IngestExcept(w, "VectorStoreError", tmpDirs) /\ UNCHANGED chunks
  /\ UNCHANGED <<started, rid, req, calls, blobs, collections, knowledge, history, environ>>

\* views.py:114  collection_id = Collection.objects.get(name=collection_name).uuid
IngestLookup(w) ==
  /\ pc[w] = "i_lookup"
  /\ \E ok \in BOOLEAN :
       IF ~ok
       THEN IngestExcept(w, "DatabaseError", tmpDirs)
       ELSE IF ByName(loc[w].collection_name) = {}
       THEN IngestExcept(w, "DoesNotExist", tmpDirs)
       ELSE /\ \E c \in ByName(loc[w].collection_name) :
                 loc' = [loc EXCEPT ![w].collection_id = c.uuid]
            /\ Goto(w, "i_know")
            /\ UNCHANGED <<raised, tmpDirs>>
  /\ UNCHANGED <<started, rid, req, calls, blobs, collections, chunks, knowledge, history, environ>>

\* A variant that links the document to the first collection of the catalog.
IngestKnowledgeFirstCollection(w) ==
  /\ pc[w] = "i_know"
  /\ \E ok \in BOOLEAN :
       IF ok
       THEN /\ knowledge' = knowledge \cup
                 {[url |-> loc[w].knowledge_url, collection_id |-> Head(collections).uuid]}
            /\ tmpDirs' = tmpDirs \ {loc[w].tmp_storage_path}
            /\ JsonResponse(w, 200, "Successfully created embeddings")
            /\ UNCHANGED raised
       ELSE IngestExcept(w, "DatabaseError", tmpDirs) /\ UNCHANGED knowledge
  /\ UNCHANGED <<started, rid, req, calls, blobs, collections, chunks, history, environ>>

\* views.py:116-122  Knowledge.objects.create(url, collection_id);
\* shutil.rmtree(tmp_storage_path); 200
IngestKnowledge(w) ==
  /\ pc[w] = "i_know"
  /\ \E ok \in BOOLEAN :
       IF ok
       THEN /\ knowledge' = knowledge \cup
                 {[url |-> loc[w].knowledge_url, collection_id |-> loc[w].collection_id]}
            /\ tmpDirs' = tmpDirs \ {loc[w].tmp_storage_path}
            /\ JsonResponse(w, 200, "Successfully created embeddings")
            /\ UNCHANGED raised
       ELSE IngestExcept(w, "DatabaseError", tmpDirs) /\ UNCHANGED knowledge
  /\ UNCHANGED <<started, rid, req, calls, blobs, collections, chunks, history, environ>>

Ingest(w) ==
  \/ IngestStart(w)
  \/ IngestStage(w)
  \/ IngestUpload(w)
  \/ IngestLoader(w)
  \/ IngestLoad(w)
  \/ IngestEmbed(w)
  \/ IngestCreate(w)
  \/ IngestAdd(w)
  \/ IngestLookup(w)
  \/ IngestKnowledge(w)

\* ============================================================= deletion
\* KnowledgeView.delete, views.py:128-160

\* views.py:158-160  except Exception as e: JsonResponse(str(e), 500)
Except(w, e) ==
  /\ raised' = [raised EXCEPT ![w] = e]
  /\ JsonResponse(w, 500, e)

\* The Document References a caller may name: of a seeded document, of an
\* earlier request (a document if that request is an ingestion that has
\* uploaded), or of no document at all (the token of the delete request).
Urls(r) == {UploadUrl(t) : t \in SeedTokens \cup 1..r}

DeleteData(r) ==
  {[NoReq EXCEPT !.kind = "delete", !.valid = FALSE]}
  \cup {[NoReq EXCEPT !.kind = "delete", !.url = u] : u \in Urls(r)}

\* views.py:128-137  validation; os.environ["OPENAI_API_KEY"] = key
DeleteStart(w) ==
  /\ CanStart(w)
  /\ \E data \in DeleteData(rid[w]) :
       LET valid == data.valid IN
       /\ req' = [req EXCEPT ![w] = [data EXCEPT !.openai_api_key = Key(rid[w])]]
       /\ IF ~valid
          THEN Except(w, "ValidationError") /\ UNCHANGED environ
          ELSE /\ environ' = Key(rid[w])
               /\ Step(w, "d_know")
               /\ UNCHANGED raised
  /\ UNCHANGED <<started, rid, calls, stores>>

\* A variant that, finding no Knowledge Entry, removes the blob and succeeds.
DeleteKnowIgnoresMissing(w) ==
  /\ pc[w] = "d_know"
  /\ \E ok \in BOOLEAN :
       LET rows == {k \in knowledge : k.url = req[w].url} IN
       IF ~ok
       THEN Except(w, "DatabaseError") /\ UNCHANGED blobs
       ELSE IF rows = {}
       THEN /\ blobs' = blobs \ {req[w].url}
            /\ JsonResponse(w, 200, "Successfully deleted")
            /\ UNCHANGED raised
       ELSE /\ \E k \in rows : loc' = [loc EXCEPT ![w].collection_id = k.collection_id]
            /\ Goto(w, "d_name")
            /\ UNCHANGED <<raised, blobs>>
  /\ UNCHANGED <<started, rid, req, calls, tmpDirs, collections, chunks, knowledge, history,
                 environ>>

\* views.py:139  collection_id = Knowledge.objects.get(url=url).collection_id
DeleteKnow(w) ==
  /\ pc[w] = "d_know"
  /\ \E ok \in BOOLEAN :
       LET rows == {k \in knowledge : k.url = req[w].url} IN
       IF ~ok
       THEN Except(w, "DatabaseError")
       ELSE IF rows = {}
       THEN Except(w, "DoesNotExist")
       ELSE /\ \E k \in rows : loc' = [loc EXCEPT ![w].collection_id = k.collection_id]
            /\ Goto(w, "d_name")
            /\ UNCHANGED raised
  /\ UNCHANGED <<started, rid, req, calls, stores, environ>>

\* views.py:140  collection_name = Collection.objects.get(uuid=collection_id).name
DeleteName(w) ==
  /\ pc[w] = "d_name"
  /\ \E ok \in BOOLEAN :
       IF ~ok
       THEN Except(w, "DatabaseError")
       ELSE IF ByUuid(loc[w].collection_id) = {}
       THEN Except(w, "DoesNotExist")
       ELSE /\ \E c \in ByUuid(loc[w].collection_id) :
                 loc' = [loc EXCEPT ![w].collection_name = c.name]
            /\ Goto(w, "d_store")
            /\ UNCHANGED raised
  /\ UNCHANGED <<started, rid, req, calls, stores, environ>>

\* views.py:142-149  OpenAIEmbeddings(); store = PGVector(collection_name=...):
\* the constructor creates the collection row when it is missing
DeleteStore(w) ==
  /\ pc[w] = "d_store"
  /\ \E ok \in BOOLEAN :
       IF ok
       THEN /\ collections' = GetOrCreate(rid[w], loc[w].collection_name)
            /\ loc' = [loc EXCEPT ![w].client_key = environ]
            /\ Goto(w, "d_drop")
            /\ UNCHANGED raised
       ELSE Except(w, "VectorStoreError") /\ UNCHANGED collections
  /\ UNCHANGED <<started, rid, req, calls, tmpDirs, blobs, chunks, knowledge, history, environ>>

\* views.py:150  store.delete_collection()
DeleteDrop(w) ==
  /\ pc[w] = "d_drop"
  /\ \E ok \in BOOLEAN :
       IF ok
       THEN /\ collections' = DropCollection(loc[w].collection_name)
            /\ chunks' = {ch \in chunks :
                            ch.collection_id \notin {c.uuid : c \in ByName(loc[w].collection_name)}}
            /\ Step(w, "d_entry")
            /\ UNCHANGED raised
       ELSE Except(w, "VectorStoreError") /\ UNCHANGED <<collections, chunks>>
  /\ UNCHANGED <<started, rid, req, calls, tmpDirs, blobs, knowledge, history, environ>>

\* views.py:152  Knowledge.objects.filter(url=url).delete()
DeleteEntry(w) ==
  /\ pc[w] = "d_entry"
  /\ \E ok \in BOOLEAN :
       IF ok
       THEN /\ knowledge' = {k \in knowledge : k.url # req[w].url}
            /\ Step(w, "d_blob")
            /\ UNCHANGED raised
       ELSE Except(w, "DatabaseError") /\ UNCHANGED knowledge
  /\ UNCHANGED <<started, rid, req, calls, tmpDirs, blobs, collections, chunks, history, environ>>

\* views.py:154-157  blob_name = get_blob_name(url); delete_blob(BUCKET_NAME, blob_name); 200
DeleteBlob(w) ==
  /\ pc[w] = "d_blob"
  /\ \E ok \in BOOLEAN :
       LET objs == {b \in blobs : BlobName(b) = BlobName(req[w].url)} IN
       IF ~ok
       THEN Except(w, "StorageError") /\ UNCHANGED blobs
       ELSE IF objs = {}
       THEN Except(w, "NotFound") /\ UNCHANGED blobs
       ELSE /\ blobs' = blobs \ objs
            /\ JsonResponse(w, 200, "Successfully deleted")
            /\ UNCHANGED raised
  /\ UNCHANGED <<started, rid, req, calls, tmpDirs, collections, chunks, knowledge, history, environ>>

Delete(w) ==
  \/ DeleteStart(w)
  \/ DeleteKnow(w)
  \/ DeleteName(w)
  \/ DeleteStore(w)
  \/ DeleteDrop(w)
  \/ DeleteEntry(w)
  \/ DeleteBlob(w)

\* ================================================================ query
\* KnowledgeRetrieveView.post, views.py:169-263

\* views.py:191  the shortlist size of get_top3_similar_collections
TopK == 3

\* views.py:184  the message of the 200 response to a query on an empty catalog
NoEmbeddingsMessage == "No embeddings found. Please create embeddings first"

\* views.py:182  DBHelper.have_embeddings(): does the catalog hold a collection
HaveEmbeddings == collections # <<>>

Abs(x) == IF x < 0 THEN -x ELSE x

\* similarity of a query vector to a collection: that of its nearest chunk
Similarity(v, id) ==
  LET ds == {Abs(ch.embedding - v) : ch \in {c \in chunks : c.collection_id = id}} IN
  IF ds = {} THEN -100 ELSE -(CHOOSE d \in ds : \A e \in ds : d <= e)

RECURSIVE TopSimilar(_, _, _)
\* the k most similar rows of cat, best first, ties in insertion order
TopSimilar(v, cat, k) ==
  IF k = 0 \/ cat = <<>> THEN <<>>
  ELSE LET best == CHOOSE i \in 1..Len(cat) :
                     \A j \in 1..Len(cat) :
                       \/ Similarity(v, cat[i].uuid) > Similarity(v, cat[j].uuid)
                       \/ /\ Similarity(v, cat[i].uuid) = Similarity(v, cat[j].uuid)
                          /\ i <= j
           rest == [n \in 1..(Len(cat) - 1) |-> IF n < best THEN cat[n] ELSE cat[n + 1]]
       IN <<cat[best].uuid>> \o TopSimilar(v, rest, k - 1)

\* views.py:191-193  EmbeddingsHelper.get_top3_similar_collections(embeddings)
GetTop3SimilarCollections(v) == TopSimilar(v, collections, TopK)

\* views.py:194-196  EmbeddingsHelper.get_most_similar_collection(top3)
GetMostSimilarCollection(top3) == Head(top3)

\* Generation service, rewrite prompt: the standalone form of a follow-up
Rewrite(question) ==
  CASE question = "q1" -> "standalone q1"
    [] question = "q2" -> "standalone q2"
    [] OTHER -> "standalone"

\* Generation service, answer prompt
Answer(question) ==
  CASE question = "q1" -> "a1"
    [] question = "q2" -> "a2"
    [] OTHER -> "a"

HumanTurn(r, content) == [role |-> "human", content |-> content, by |-> r]
AITurn(r, content) == [role |-> "ai", content |-> content, by |-> r]

QueryData ==
  {[NoReq EXCEPT !.kind = "query", !.valid = FALSE]}
  \cup {[NoReq EXCEPT !.kind = "query", !.question = q, !.user_id = u] :
           q \in Questions, u \in Sessions}

\* views.py:169-180  validation; os.environ["OPENAI_API_KEY"] = key
QueryStart(w) ==
  /\ CanStart(w)
  /\ \E data \in QueryData :
       /\ req' = [req EXCEPT ![w] = [data EXCEPT !.openai_api_key = Key(rid[w])]]
       /\ IF ~data.valid
          THEN Except(w, "ValidationError") /\ UNCHANGED environ
          ELSE /\ environ' = Key(rid[w])
               /\ Step(w, "q_have")
               /\ UNCHANGED raised
  /\ UNCHANGED <<started, rid, calls, stores>>

\* A variant that embeds the question before it looks at the catalog.
QueryHaveEmbedsFirst(w) ==
  /\ pc[w] = "q_have"
  /\ Call(w, "embed", req[w].openai_api_key, req[w].question)
  /\ \E ok \in BOOLEAN :
       IF ~ok
       THEN Except(w, "DatabaseError")
       ELSE IF ~HaveEmbeddings
       THEN /\ JsonResponse(w, 200, NoEmbeddingsMessage)
            /\ UNCHANGED raised
       ELSE Step(w, "q_embed") /\ UNCHANGED raised
  /\ UNCHANGED <<started, rid, req, stores, environ>>

\* views.py:182-186  have_embeddings() is False -> 200 "No embeddings found"
QueryHave(w) ==
  /\ pc[w] = "q_have"
  /\ \E ok \in BOOLEAN :
       IF ~ok
       THEN Except(w, "DatabaseError")
       ELSE IF ~HaveEmbeddings
       THEN /\ JsonResponse(w, 200, NoEmbeddingsMessage)
            /\ UNCHANGED raised
       ELSE Step(w, "q_embed") /\ UNCHANGED raised
  /\ UNCHANGED <<started, rid, req, calls, stores, environ>>

\* views.py:188-190  generate_embeddings(openai_api_key, question)
QueryEmbed(w) ==
  /\ pc[w] = "q_embed"
  /\ Call(w, "embed", req[w].openai_api_key, req[w].question)
  /\ \E ok \in BOOLEAN :
       IF ok
       THEN /\ loc' = [loc EXCEPT ![w].embeddings = Embed(req[w].question)]
            /\ Goto(w, "q_select")
            /\ UNCHANGED raised
       ELSE Except(w, "EmbeddingServiceError")
  /\ UNCHANGED <<started, rid, req, stores, environ>>

\* A variant whose shortlist is the whole ranked catalog.
QuerySelectWholeCatalog(w) ==
  /\ pc[w] = "q_select"
  /\ Call(w, "select", NoKey, req[w].question)
  /\ \E ok \in BOOLEAN :
       LET top3 == TopSimilar(loc[w].embeddings, collections, Len(collections)) IN
       IF ~ok
       THEN Except(w, "SelectionError")
       ELSE IF top3 = <<>>
       THEN Except(w, "NoCollectionsAvailable")
       ELSE /\ loc' = [loc EXCEPT ![w].top3 = top3,
                                  ![w].collection_id = GetMostSimilarCollection(top3)]
            /\ Goto(w, "q_name")
            /\ UNCHANGED raised
  /\ UNCHANGED <<started, rid, req, stores, environ>>

\* views.py:191-196  the shortlist, then the single best of it; an empty
\* catalog raises, and the exception goes to the handler's except clause
QuerySelect(w) ==
  /\ pc[w] = "q_select"
  /\ Call(w, "select", NoKey, req[w].question)
  /\ \E ok \in BOOLEAN :
       LET top3 == GetTop3SimilarCollections(loc[w].embeddings) IN
       IF ~ok
       THEN Except(w, "SelectionError")
       ELSE IF top3 = <<>>
       THEN Except(w, "NoCollectionsAvailable")
       ELSE /\ loc' = [loc EXCEPT ![w].top3 = top3,
                                  ![w].collection_id = GetMostSimilarCollection(top3)]
            /\ Goto(w, "q_name")
            /\ UNCHANGED raised
  /\ UNCHANGED <<started, rid, req, stores, environ>>

\* views.py:197-207  Collection.objects.get(uuid=collection_id).name;
\* ChatOpenAI(...) and OpenAIEmbeddings(...) take their key from the environment
QueryName(w) ==
  /\ pc[w] = "q_name"
  /\ \E ok \in BOOLEAN :
       IF ~ok
       THEN Except(w, "DatabaseError")
       ELSE IF ByUuid(loc[w].collection_id) = {}
       THEN Except(w, "DoesNotExist")
       ELSE /\ \E c \in ByUuid(loc[w].collection_id) :
                 loc' = [loc EXCEPT ![w].collection_name = c.name,
                                    ![w].client_key = environ]
            /\ Goto(w, "q_store")
            /\ UNCHANGED raised
  /\ UNCHANGED <<started, rid, req, calls, stores, environ>>

\* views.py:210-216  store = PGVector(collection_name=...): the constructor
\* creates the collection row when it is missing
QueryStore(w) ==
  /\ pc[w] = "q_store"
  /\ \E ok \in BOOLEAN :
       IF ok
       THEN /\ collections' = GetOrCreate(rid[w], loc[w].collection_name)
            /\ Step(w, "q_load")
            /\ UNCHANGED raised
       ELSE Except(w, "VectorStoreError") /\ UNCHANGED collections
  /\ UNCHANGED <<started, rid, req, calls, tmpDirs, blobs, chunks, knowledge, history, environ>>

\* views.py:245-258  invoke, first: RunnableWithMessageHistory reads the
\* session's stored turns into chat_history
QueryLoad(w) ==
  /\ pc[w] = "q_load"
  /\ \E ok \in BOOLEAN :
       IF ok
       THEN /\ loc' = [loc EXCEPT ![w].chat_history = history[req[w].user_id]]
            /\ Goto(w, "q_context")
            /\ UNCHANGED raised
       ELSE Except(w, "HistoryStoreError")
  /\ UNCHANGED <<started, rid, req, calls, stores, environ>>

\* A variant that asks for a rewrite whether or not there is history.
QueryContextualizeAlwaysRewrites(w) ==
  /\ pc[w] = "q_context"
  /\ Call(w, "rewrite", loc[w].client_key, req[w].question)
  /\ \E ok \in BOOLEAN :
       IF ok
       THEN /\ loc' = [loc EXCEPT ![w].standalone = Rewrite(req[w].question)]
            /\ Goto(w, "q_retrieve")
            /\ UNCHANGED raised
       ELSE Except(w, "GenerationServiceError")
  /\ UNCHANGED <<started, rid, req, stores, environ>>

\* views.py:218-229  create_history_aware_retriever: without chat_history the
\* input goes to the retriever as it is, otherwise the llm rewrites it first
QueryContextualize(w) ==
  /\ pc[w] = "q_context"
  /\ IF loc[w].chat_history = <<>>
     THEN /\ loc' = [loc EXCEPT ![w].standalone = req[w].question]
          /\ Goto(w, "q_retrieve")
          /\ UNCHANGED <<raised, calls>>
     ELSE /\ Call(w, "rewrite", loc[w].client_key, req[w].question)
          /\ \E ok \in BOOLEAN :
               IF ok
               THEN /\ loc' = [loc EXCEPT ![w].standalone = Rewrite(req[w].question)]
                    /\ Goto(w, "q_retrieve")
                    /\ UNCHANGED raised
               ELSE Except(w, "GenerationServiceError")
  /\ UNCHANGED <<started, rid, req, stores, environ>>

\* A variant of the search that is not scoped to the store's collection.
SimilaritySearchEverywhere(name) == chunks

\* the chunks of the collection row that has the store's name
SimilaritySearch(name) ==
  {ch \in chunks : ch.collection_id \in {c.uuid : c \in ByName(name)}}

\* A variant that goes on to the synthesizer when the search has failed.
QueryRetrieveIgnoresFailure(w) ==
  /\ pc[w] = "q_retrieve"
  /\ Call(w, "retrieve", loc[w].client_key, loc[w].standalone)
  /\ \E ok \in BOOLEAN :
       /\ raised' = [raised EXCEPT ![w] = IF ok THEN @ ELSE "VectorStoreError"]
       /\ loc' = [loc EXCEPT ![w].docs = IF ok THEN SimilaritySearch(loc[w].collection_name)
                                          ELSE {}]
       /\ Goto(w, "q_synth")
  /\ UNCHANGED <<started, rid, req, stores, environ>>

\* views.py:216, 227-229  the retriever: embed the standalone question, then
\* search the store's collection; a store whose row is gone raises
QueryRetrieve(w) ==
  /\ pc[w] = "q_retrieve"
  /\ Call(w, "retrieve", loc[w].client_key, loc[w].standalone)
  /\ \E ok \in BOOLEAN :
       IF ~ok
       THEN Except(w, "VectorStoreError")
       ELSE IF ByName(loc[w].collection_name) = {}
       THEN Except(w, "Collection not found")
       ELSE /\ loc' = [loc EXCEPT ![w].docs = SimilaritySearch(loc[w].collection_name)]
            /\ Goto(w, "q_synth")
            /\ UNCHANGED raised
  /\ UNCHANGED <<started, rid, req, stores, environ>>

\* A variant that stores the human turn before the answer is generated.
QuerySynthesizeStoresFirst(w) ==
  /\ pc[w] = "q_synth"
  /\ Call(w, "generate", loc[w].client_key, req[w].question)
  /\ history' = [history EXCEPT ![req[w].user_id] = Append(@, HumanTurn(rid[w], req[w].question))]
  /\ \E ok \in BOOLEAN :
       IF ok
       THEN /\ loc' = [loc EXCEPT ![w].answer = Answer(req[w].question)]
            /\ Goto(w, "q_ai")
            /\ UNCHANGED raised
       ELSE Except(w, "GenerationServiceError")
  /\ UNCHANGED <<started, rid, req, tmpDirs, blobs, collections, chunks, knowledge, environ>>

\* views.py:231-243  question_answer_chain: system prompt with the context,
\* chat_history, and the human turn {input}
QuerySynthesize(w) ==
  /\ pc[w] = "q_synth"
  /\ Call(w, "generate", loc[w].client_key, req[w].question)
  /\ \E ok \in BOOLEAN :
       IF ok
       THEN /\ loc' = [loc EXCEPT ![w].answer = Answer(req[w].question)]
            /\ Goto(w, "q_human")
            /\ UNCHANGED raised
       ELSE Except(w, "GenerationServiceError")
  /\ UNCHANGED <<started, rid, req, stores, environ>>

\* A variant that stores the human turn in place of the earlier turns.
QueryAppendHumanOverwrites(w) ==
  /\ pc[w] = "q_human"
  /\ history' = [history EXCEPT ![req[w].user_id] = <<HumanTurn(rid[w], req[w].question)>>]
  /\ Goto(w, "q_ai")
  /\ UNCHANGED <<started, rid, req, loc, raised, calls, tmpDirs, blobs, collections, chunks,
                 knowledge, environ>>

\* views.py:245-258  invoke, after the chain has ended: the input message is
\* added to the session's stored turns (the store is taken to accept writes)
QueryAppendHuman(w) ==
  /\ pc[w] = "q_human"
  /\ history' = [history EXCEPT ![req[w].user_id] = Append(@, HumanTurn(rid[w], req[w].question))]
  /\ Goto(w, "q_ai")
  /\ UNCHANGED <<started, rid, req, loc, raised, calls, tmpDirs, blobs, collections, chunks,
                 knowledge, environ>>

\* A variant that writes the answer turn over the last stored turn.
QueryAppendAIReplacesLast(w) ==
  /\ pc[w] = "q_ai"
  /\ history' = [history EXCEPT ![req[w].user_id] =
                   [@ EXCEPT ![Len(@)] = AITurn(rid[w], loc[w].answer)]]
  /\ JsonResponse(w, 200, loc[w].answer)
  /\ UNCHANGED <<started, rid, req, raised, calls, tmpDirs, blobs, collections, chunks,
                 knowledge, environ>>

\* views.py:245-260  then the output message is added; 200 with the answer
QueryAppendAI(w) ==
  /\ pc[w] = "q_ai"
  /\ history' = [history EXCEPT ![req[w].user_id] = Append(@, AITurn(rid[w], loc[w].answer))]
  /\ JsonResponse(w, 200, loc[w].answer)
  /\ UNCHANGED <<started, rid, req, raised, calls, tmpDirs, blobs, collections, chunks,
                 knowledge, environ>>

Query(w) ==
  \/ QueryStart(w)
  \/ QueryHave(w)
  \/ QueryEmbed(w)
  \/ QuerySelect(w)
  \/ QueryName(w)
  \/ QueryStore(w)
  \/ QueryLoad(w)
  \/ QueryContextualize(w)
  \/ QueryRetrieve(w)
  \/ QuerySynthesize(w)
  \/ QueryAppendHuman(w)
  \/ QueryAppendAI(w)

\* ======================================================== initial state
\* The stores outlive the serving process: empty, or holding what earlier
\* requests left: one ingested document (by request 101), and one completed
\* exchange in session "s1" (by request 102).
Seeds == {"empty", "document", "conversation"}

SeedDoc == "d1"
SeedChunks ==
  {[collection_id |-> Uuid(t), document |-> d, embedding |-> Embed(SeedDoc)] :
     t \in SeedTokens, d \in SplitDocuments(SeedDoc)}

SeedHistory ==
  [s \in Sessions |->
     IF s = "s1" THEN <<HumanTurn(102, "q1"), AITurn(102, Answer("q1"))>>
     ELSE <<>>]

Init ==
  /\ started = 0
  /\ rid = [w \in Workers |-> 0]
  /\ pc = [w \in Workers |-> "idle"]
  /\ req = [w \in Workers |-> NoReq]
  /\ loc = [w \in Workers |-> NoLoc]
  /\ resp = [w \in Workers |-> NoResp]
  /\ raised = [w \in Workers |-> ""]
  /\ calls = [w \in Workers |-> <<>>]
  /\ tmpDirs = {}
  /\ environ = NoKey
  /\ \E seed \in Seeds :
       IF seed = "empty"
       THEN /\ blobs = {}
            /\ collections = <<>>
            /\ chunks = {}
            /\ knowledge = {}
            /\ history = [s \in Sessions |-> <<>>]
       ELSE /\ blobs = {UploadUrl(t) : t \in SeedTokens}
            /\ collections = <<[uuid |-> Uuid(101), name |-> CollectionName(101)]>>
            /\ chunks = SeedChunks
            /\ knowledge = {[url |-> UploadUrl(t), collection_id |-> Uuid(t)] : t \in SeedTokens}
            /\ history = IF seed = "conversation" THEN SeedHistory
                         ELSE [s \in Sessions |-> <<>>]

Next ==
  \E w \in Workers :
    \/ Accept(w)
    \/ Ingest(w)
    \/ Delete(w)
    \/ Query(w)

Spec == Init /\ [][Next]_vars

\* ------------------------------------------------ the selector's inputs
\* Queries handled one at a time against a catalog of 0..MaxCat collections,
\* each empty or holding one chunk; the selector is applied to every such
\* catalog.
CatVectors == {0, 2, 3, 5}

Catalog(n) == [i \in 1..n |-> [uuid |-> Uuid(200 + i), name |-> CollectionName(200 + i)]]

CatalogChunks(n, e) ==
  {[collection_id |-> Uuid(200 + i), document |-> <<SeedDoc, i>>, embedding |-> e[i]] :
     i \in {j \in 1..n : e[j] # 0}}

InitSelect ==
  /\ started = 0
  /\ rid = [w \in Workers |-> 0]
  /\ pc = [w \in Workers |-> "idle"]
  /\ req = [w \in Workers |-> NoReq]
  /\ loc = [w \in Workers |-> NoLoc]
  /\ resp = [w \in Workers |-> NoResp]
  /\ raised = [w \in Workers |-> ""]
  /\ calls = [w \in Workers |-> <<>>]
  /\ tmpDirs = {}
  /\ blobs = {}
  /\ knowledge = {}
  /\ history = SeedHistory
  /\ environ = NoKey
  /\ \E n \in 0..MaxCat : \E e \in [1..n -> CatVectors] :
       /\ collections = Catalog(n)
       /\ chunks = CatalogChunks(n, e)

NextSelect == Accept(1) \/ Query(1)

SpecSelect == InitSelect /\ [][NextSelect]_vars
\* =============================================================== claims
Done(w) == pc[w] = "done"

\* the turns of hs stored by request r, in stored order
TurnsBy(hs, r) ==
  LET Mine(t) == t.by = r IN SelectSeq(hs, Mine)

IsPrefix(a, b) == Len(a) <= Len(b) /\ SubSeq(b, 1, Len(a)) = a

\* C1: a query that ends in a failure, whichever step raised (embedding,
\* selection, contextualization, retrieval, synthesis or any other), has stored
\* no turn: neither its human turn nor an answer turn is in any session's history.
C1_FailedQueryStoresNoTurn ==
  \A w \in Workers :
    (req[w].kind = "query" /\ Done(w) /\ raised[w] # "")
      => \A s \in Sessions : TurnsBy(history[s], rid[w]) = <<>>

\* a query with earlier turns in its session has failed at the retrieval step
C1_Witness ==
  \E w \in Workers :
    /\ req[w].kind = "query" /\ Done(w) /\ raised[w] = "VectorStoreError"
    /\ Len(calls[w]) > 0 /\ calls[w][Len(calls[w])].svc = "retrieve"
    /\ loc[w].chat_history # <<>>
    /\ history[req[w].user_id] = loc[w].chat_history

\* C2: a query stores nothing before synthesis has succeeded; then it stores
\* its human turn and then its answer turn, after the turns H it read: H stays
\* a prefix, and with no other request's turn in between the history is exactly
\* H, human turn, answer turn.
C2_SuccessfulQueryAppendsHumanThenAnswer ==
  \A w \in Workers :
    req[w].kind = "query" =>
      LET hs == history[req[w].user_id]
          H == loc[w].chat_history
          h == HumanTurn(rid[w], req[w].question)
          a == AITurn(rid[w], loc[w].answer)
          mine == TurnsBy(hs, rid[w])
      IN /\ pc[w] \notin {"q_ai", "done"} => mine = <<>>
         /\ pc[w] = "q_ai" => mine = <<h>> /\ IsPrefix(H, hs)
         /\ (Done(w) /\ resp[w].status = 200 /\ resp[w].message # NoEmbeddingsMessage) =>
              /\ resp[w].message = loc[w].answer
              /\ mine = <<h, a>>
              /\ IsPrefix(H, hs)
              /\ \A i \in 1..Len(H) : hs[i].by # rid[w]
              /\ (\A i \in (Len(H) + 1)..(Len(H) + 2) : i <= Len(hs) /\ hs[i].by = rid[w])
                   => SubSeq(hs, 1, Len(H) + 2) = H \o <<h, a>>

\* a query in a session with earlier turns [h1, a1] has succeeded and the
\* session's history is [h1, a1, h2, a2]
C2_Witness ==
  \E w \in Workers :
    /\ req[w].kind = "query" /\ Done(w) /\ resp[w].status = 200
    /\ loc[w].chat_history = SeedHistory[req[w].user_id]
    /\ Len(loc[w].chat_history) = 2
    /\ history[req[w].user_id] =
         loc[w].chat_history \o <<HumanTurn(rid[w], req[w].question), AITurn(rid[w], loc[w].answer)>>

\* C3: a query whose selector found no collection in the catalog is answered
\* with the 200 "No embeddings found" response.
C3_EmptySelectionIsNormalResponse ==
  \A w \in Workers :
    (req[w].kind = "query" /\ Done(w) /\ raised[w] = "NoCollectionsAvailable")
      => /\ resp[w].status = 200
         /\ resp[w].message = NoEmbeddingsMessage

\* C4: the step that checks the catalog, taken when the catalog holds no
\* collection, ends the query: no service call has been or is made, no store
\* changes, and the response is the 200 "No embeddings found" (or the 500 of the
\* failed check itself).
C4_EmptyCatalogRejectedBeforeEmbedding ==
  [][\A w \in Workers :
       (pc[w] = "q_have" /\ pc'[w] # "q_have" /\ collections = <<>>)
         => /\ pc'[w] = "done"
            /\ calls[w] = <<>> /\ calls'[w] = <<>>
            /\ history' = history
            /\ \/ resp'[w] = [status |-> 200, message |-> NoEmbeddingsMessage, escaped |-> FALSE]
               \/ resp'[w].status = 500 /\ raised'[w] = "DatabaseError"]_vars

\* a query answered "No embeddings found" without any service call
C4_Witness ==
  \E w \in Workers :
    /\ req[w].kind = "query" /\ Done(w)
    /\ resp[w].message = NoEmbeddingsMessage
    /\ collections = <<>>
    /\ calls[w] = <<>>

\* C5: the chunks a query has retrieved for the synthesizer all belong to the
\* collection its selector chose.
C5_RetrievalScopedToChosenCollection ==
  \A w \in Workers :
    req[w].kind = "query" =>
      \A ch \in loc[w].docs : ch.collection_id = loc[w].collection_id

\* a query holds retrieved chunks while another collection has chunks too
C5_Witness ==
  \E w \in Workers :
    /\ req[w].kind = "query" /\ pc[w] = "q_synth"
    /\ loc[w].docs # {}
    /\ \E ch \in chunks : ch.collection_id # loc[w].collection_id

\* C6: an ingestion that ended in a failure response has left no staged
\* temporary directory of its own.
C6_FailedIngestionLeavesNoTmpDir ==
  \A w \in Workers :
    (req[w].kind = "ingest" /\ Done(w) /\ resp[w].status # 200)
      => TmpPath(rid[w]) \notin tmpDirs

\* C7: an ingestion in which some step raised E answers with E's message, and
\* no other exception leaves the handler.
C7_IngestionFailureCarriesOriginalMessage ==
  \A w \in Workers :
    (req[w].kind = "ingest" /\ Done(w) /\ raised[w] # "")
      => /\ resp[w].message = raised[w]
         /\ ~resp[w].escaped

\* C8: a request whose fields fail validation is answered with the validation
\* error and has changed nothing: no tmp directory, blob, collection, chunk,
\* Knowledge Entry or turn of its own exists, no call was made, and the
\* environment does not hold its credential.
C8_ValidationFailureSurfacedWithoutEffects ==
  \A w \in Workers :
    (Done(w) /\ ~req[w].valid)
      => /\ resp[w].message = "ValidationError"
         /\ ~resp[w].escaped
         /\ calls[w] = <<>>
         /\ TmpPath(rid[w]) \notin tmpDirs
         /\ UploadUrl(rid[w]) \notin blobs
         /\ ByUuid(Uuid(rid[w])) = {}
         /\ \A k \in knowledge : k.url # UploadUrl(rid[w])
         /\ \A s \in Sessions : TurnsBy(history[s], rid[w]) = <<>>
         /\ environ # Key(rid[w])

\* C9: the step that completes a successful ingestion adds exactly one
\* Knowledge Entry, which links the uploaded blob's URL to the id of the one
\* collection row the ingestion created; that row and the blob exist, and when
\* no other collection exists the catalog holds exactly that one.
C9_IngestionAddsOneCollectionOneEntry ==
  [][\A w \in Workers :
       (pc[w] = "i_know" /\ pc'[w] = "done" /\ resp'[w].status = 200)
         => LET entry == [url |-> UploadUrl(rid[w]), collection_id |-> Uuid(rid[w])]
                row == [uuid |-> Uuid(rid[w]), name |-> CollectionName(rid[w])]
            IN /\ entry \notin knowledge
               /\ knowledge' = knowledge \cup {entry}
               /\ {k \in knowledge' : k.url = entry.url} = {entry}
               /\ collections' = collections
               /\ {i \in 1..Len(collections) : collections[i].uuid = row.uuid
                                               \/ collections[i].name = row.name}
                    = {i \in 1..Len(collections) : collections[i] = row}
               /\ Cardinality({i \in 1..Len(collections) : collections[i] = row}) = 1
               /\ UploadUrl(rid[w]) \in blobs]_vars

\* an ingestion into an empty catalog has succeeded: the catalog holds exactly
\* one collection, linked to the document's URL
C9_Witness ==
  \E w \in Workers :
    /\ req[w].kind = "ingest" /\ Done(w) /\ resp[w].status = 200
    /\ collections = <<[uuid |-> Uuid(rid[w]), name |-> CollectionName(rid[w])]>>
    /\ knowledge = {[url |-> UploadUrl(rid[w]), collection_id |-> Uuid(rid[w])]}

\* C10: the step that completes a successful delete of Document Reference D
\* leaves no collection row with the id of D's collection, no Knowledge Entry
\* for D and no blob of D; and when no other document is left (no blob, no
\* Knowledge Entry), the catalog holds no collection.
C10_DeleteLeavesNothingOfDocument ==
  [][\A w \in Workers :
       (pc[w] = "d_blob" /\ pc'[w] = "done" /\ resp'[w].status = 200)
         => /\ \A k \in knowledge' : k.url # req[w].url
            /\ req[w].url \notin blobs'
            /\ \A i \in 1..Len(collections') :
                 collections'[i].uuid # loc[w].collection_id
            /\ (blobs' = {} /\ knowledge' = {}) => collections' = <<>>]_vars

\* C11: every call a request makes to the embedding service or the generation
\* service carries the credential that request supplied.
C11_CallsUseOwnCredential ==
  \A w \in Workers :
    \A i \in 1..Len(calls[w]) :
      calls[w][i].svc \in {"embed", "rewrite", "retrieve", "generate"}
        => calls[w][i].key = req[w].openai_api_key

\* C12: the selector step on a non-empty catalog of n collections, when the
\* selector itself does not fail, yields a shortlist of at most min(3, n)
\* distinct ids of the catalog and a chosen id that a row of the catalog has;
\* with n = 1 the chosen id is that of the one collection.
C12_SelectorChoosesFromCatalog ==
  [][\A w \in Workers :
       (pc[w] = "q_select" /\ pc'[w] # "q_select" /\ collections # <<>>
          /\ raised'[w] # "SelectionError")
         => LET n == Len(collections)
                top == loc'[w].top3
                id == loc'[w].collection_id
                ids == {collections[i].uuid : i \in 1..n}
            IN /\ pc'[w] = "q_name"
               /\ Len(top) >= 1
               /\ Len(top) <= (IF n < TopK THEN n ELSE TopK)
               /\ \A i \in 1..Len(top) : top[i] \in ids
               /\ \A i, j \in 1..Len(top) : top[i] = top[j] => i = j
               /\ id \in ids
               /\ ByUuid(id) # {}
               /\ n = 1 => id = collections[1].uuid]_vars

\* the selector has run on a catalog larger than the shortlist and has chosen
\* a collection
C12_Witness ==
  \E w \in Workers :
    /\ pc[w] = "q_name"
    /\ Len(collections) > TopK
    /\ Len(loc[w].top3) = TopK
    /\ ByUuid(loc[w].collection_id) # {}

\* the services a query has called, in call order
Services(w) == [i \in 1..Len(calls[w]) |-> calls[w][i].svc]

\* the calls of a query that got as far as position at
StepsBefore(w, at) ==
  LET rewrite == IF loc[w].chat_history = <<>> THEN <<>> ELSE <<"rewrite">> IN
  CASE at \in {"accepted", "q_have", "q_embed"} -> <<>>
    [] at = "q_select" -> <<"embed">>
    [] at \in {"q_name", "q_store", "q_load", "q_context"} -> <<"embed", "select">>
    [] at = "q_retrieve" -> <<"embed", "select">> \o rewrite
    [] at = "q_synth" -> <<"embed", "select">> \o rewrite \o <<"retrieve">>
    [] OTHER -> <<"embed", "select">> \o rewrite \o <<"retrieve", "generate">>

\* C13: a query calls embed (raw question), select, rewrite (only with
\* history), retrieve (standalone question), generate, in this order, each after
\* the one before it has succeeded; it stores turns only after generate has
\* succeeded; and after a step has failed it makes no further call and stores
\* nothing.
C13_QueryStepsInOrder ==
  \A w \in Workers :
    req[w].kind = "query" =>
      LET mine == \E s \in Sessions : TurnsBy(history[s], rid[w]) # <<>> IN
      /\ ~Done(w) => raised[w] = "" /\ Services(w) = StepsBefore(w, pc[w])
      /\ (Done(w) /\ raised[w] = "" /\ resp[w].message # NoEmbeddingsMessage)
           => Services(w) = StepsBefore(w, "done")
      /\ (Done(w) /\ raised[w] # "")
           => /\ IsPrefix(Services(w), StepsBefore(w, "done"))
              /\ ~mine
      /\ mine => Services(w) = StepsBefore(w, "done") /\ pc[w] \in {"q_ai", "done"}
      /\ \A i \in 1..Len(calls[w]) :
           /\ calls[w][i].svc = "embed" => calls[w][i].arg = req[w].question
           /\ calls[w][i].svc = "retrieve" => calls[w][i].arg = loc[w].standalone

\* a follow-up query has gone through all steps and stored its turns
C13_Witness ==
  \E w \in Workers :
    /\ req[w].kind = "query" /\ Done(w) /\ resp[w].status = 200
    /\ Services(w) = <<"embed", "select", "rewrite", "retrieve", "generate">>
    /\ TurnsBy(history[req[w].user_id], rid[w]) # <<>>

\* positions in calls[w] of the calls to service svc
CallsTo(w, svc) == {i \in 1..Len(calls[w]) : calls[w][i].svc = svc}

\* C14: once a query is past the contextualizer, with H the session history it
\* read: if H is empty no rewrite call was made and the retriever is given the
\* question unchanged; if H is not empty exactly one rewrite call was made, on
\* the question, before any retrieval call, and the retriever is given the
\* rewritten question.
C14_ContextualizerTwoBranches ==
  \A w \in Workers :
    (req[w].kind = "query"
       /\ (pc[w] \in {"q_retrieve", "q_synth", "q_human", "q_ai"} \/ CallsTo(w, "retrieve") # {}))
      => LET H == loc[w].chat_history
             q == req[w].question
         IN /\ IsPrefix(H, history[req[w].user_id])
            /\ H = <<>> =>
                 /\ CallsTo(w, "rewrite") = {}
                 /\ loc[w].standalone = q
                 /\ \A i \in CallsTo(w, "retrieve") : calls[w][i].arg = q
            /\ H # <<>> =>
                 /\ Cardinality(CallsTo(w, "rewrite")) = 1
                 /\ \A i \in CallsTo(w, "rewrite") :
                      /\ calls[w][i].arg = q
                      /\ \A j \in CallsTo(w, "retrieve") : i < j
                 /\ loc[w].standalone = Rewrite(q)
                 /\ \A i \in CallsTo(w, "retrieve") : calls[w][i].arg = Rewrite(q)

\* a first-turn query and a follow-up query have both retrieved
C14_Witness ==
  \E v, w \in Workers :
    /\ req[v].kind = "query" /\ req[w].kind = "query"
    /\ loc[v].chat_history = <<>> /\ CallsTo(v, "retrieve") # {}
    /\ loc[w].chat_history # <<>> /\ CallsTo(w, "retrieve") # {}

\* C15: the question a query hands to the answer synthesizer as its human turn
\* is the standalone question its contextualizer produced.
C15_SynthesizerGetsStandaloneQuestion ==
  \A w \in Workers :
    req[w].kind = "query" =>
      \A i \in CallsTo(w, "generate") : calls[w][i].arg = loc[w].standalone

\* worker v's last request was a delete that dropped the collection and then
\* failed at the removal of the Knowledge Entry or of the blob
FailedAfterDrop(v) ==
  /\ req[v].kind = "delete" /\ Done(v)
  /\ loc[v].client_key # NoKey
  /\ raised[v] \in {"DatabaseError", "StorageError"}

\* C16: after a delete of a Document Reference has failed past the drop of
\* the collection, a later delete request for the same reference does not
\* fail for want of the Knowledge Entry or of the collection row (none of its
\* own calls failing).
C16_RetryAfterPartialDeleteSucceeds ==
  [][\A w \in Workers :
       (/\ req[w].kind = "delete"
        /\ pc[w] \in {"d_know", "d_name"} /\ pc'[w] = "done"
        /\ \E v \in Workers \ {w} :
             FailedAfterDrop(v) /\ req[v].url = req[w].url /\ rid[v] < rid[w])
         => raised'[w] # "DoesNotExist"]_vars

\* worker w's last request is a query that returned an answer
Answered(w) ==
  /\ req[w].kind = "query" /\ Done(w)
  /\ resp[w].status = 200 /\ resp[w].message # NoEmbeddingsMessage

\* C17: when two queries in the same session have both returned an answer,
\* with P the turns stored before either of them read the history: P is still
\* the beginning of the stored history, each query's human turn and answer turn
\* are stored exactly once, the human turn first, and all four lie after P.
C17_ConcurrentQueriesOnlyAppend ==
  \A v, w \in Workers :
    (v # w /\ Answered(v) /\ Answered(w) /\ req[v].user_id = req[w].user_id)
      => LET hs == history[req[w].user_id]
             P == IF Len(loc[v].chat_history) <= Len(loc[w].chat_history)
                  THEN loc[v].chat_history ELSE loc[w].chat_history
         IN /\ IsPrefix(P, hs)
            /\ \A i \in 1..Len(P) : hs[i].by \notin {rid[v], rid[w]}
            /\ TurnsBy(hs, rid[v]) = <<HumanTurn(rid[v], req[v].question),
                                       AITurn(rid[v], loc[v].answer)>>
            /\ TurnsBy(hs, rid[w]) = <<HumanTurn(rid[w], req[w].question),
                                       AITurn(rid[w], loc[w].answer)>>
            /\ Len(hs) >= Len(P) + 4

\* two queries in a session with earlier turns have both answered, and their
\* turns are interleaved in the stored history
C17_Witness ==
  \E v, w \in Workers :
    /\ v # w /\ Answered(v) /\ Answered(w) /\ req[v].user_id = req[w].user_id
    /\ LET hs == history[req[w].user_id] IN
       /\ Len(hs) = 6
       /\ hs[3].by = rid[v] /\ hs[4].by = rid[w]
       /\ hs[5].by = rid[v] /\ hs[6].by = rid[w]

\* C18: a delete whose Document Reference has no Knowledge Entry when the
\* handler looks it up ends at that lookup with a 500 response of the handler,
\* and neither that step nor the step before it changes a store: no
\* collection, chunk, Knowledge Entry or blob is removed.
C18_StaleDeleteChangesNothing ==
  [][\A w \in Workers :
       /\ (pc[w] = "accepted" /\ req'[w].kind = "delete") => stores' = stores
       /\ (/\ req[w].kind = "delete"
           /\ pc[w] = "d_know" /\ pc'[w] # "d_know"
           /\ \A k \in knowledge : k.url # req[w].url)
            => /\ pc'[w] = "done"
               /\ resp'[w].status = 500 /\ ~resp'[w].escaped
               /\ resp'[w].message = raised'[w]
               /\ raised'[w] \in {"DoesNotExist", "DatabaseError"}
               /\ calls'[w] = <<>>
               /\ stores' = stores]_vars

\* a delete of a reference without Knowledge Entry has failed while another
\* document's collection, entry and blob are in the stores
C18_Witness ==
  \E w \in Workers :
    /\ req[w].kind = "delete" /\ Done(w) /\ raised[w] = "DoesNotExist"
    /\ loc[w].collection_id = NoId
    /\ \A k \in knowledge : k.url # req[w].url
    /\ knowledge # {} /\ collections # <<>> /\ blobs # {}

\* the collection rows an ingestion created: id and name of the same upload
CreatedByIngestion ==
  {c \in Range(collections) :
     \E t \in SeedTokens \cup 1..MaxReq : c = [uuid |-> Uuid(t), name |-> CollectionName(t)]}

\* C19: when no request is in progress, every Knowledge Entry's collection_id
\* is the id of a collection row, every collection created by an ingestion has
\* exactly one Knowledge Entry, and every blob is the url of a Knowledge Entry.
C19_ReferentialIntegrityWhenIdle ==
  (\A w \in Workers : pc[w] \in {"idle", "done"})
    => /\ \A k \in knowledge : ByUuid(k.collection_id) # {}
       /\ \A c \in CreatedByIngestion :
            Cardinality({k \in knowledge : k.collection_id = c.uuid}) = 1
       /\ \A b \in blobs : \E k \in knowledge : k.url = b
====
